---- MODULE Spec2Model ----
(***************************************************************************)
(* Model of the agent-composition script                                   *)
(*   src/DAoCConverterForRoblox/"""Build Agent using Microsoft Agent Fra.py *)
(* The state machine starts where the __main__ block is entered (line 97), *)
(* i.e. after the module-level statements (lines 7-33) have run.  It       *)
(* follows main() through the nested `async with`, the per-turn streaming  *)
(* loop, the release of both agent sessions and the top-level              *)
(* try/except/finally.  The remote provider is the environment: it decides *)
(* which chunks a stream yields and where an error or an interrupt is      *)
(* raised (at the suspension points of the coroutine only).                *)
(***************************************************************************)
EXTENDS Integers, Sequences, FiniteSets, TLC

VARIABLES
    pc,                  \* position of the control flow
    user_inputs,         \* USER_INPUTS, the list the for-loop iterates over
    turn,                \* index into user_inputs of the current turn
    printed_tool_calls,  \* the set of line 77
    arrived,             \* arrived[t]: the chunks run_stream has yielded in turn t
    out,                 \* console output, one event per print call
    Optimization_agent,  \* session of the helper agent  (lines 37-57)
    agent,               \* session of the primary agent (lines 58-72)
    sessions,            \* the __aenter__/__aexit__ calls made, in order
    pending,             \* exception in flight: "none", "error", "interrupt"
    handled,             \* whether the try statement left no exception in flight
    exitCode             \* process exit status; -1 while the process runs

vars == <<pc, user_inputs, turn, printed_tool_calls, arrived, out,
          Optimization_agent, agent, sessions, pending, handled, exitCode>>

\* ---------------------------------------------------------------- bounds
MaxTurns == 2     \* longest USER_INPUTS list explored
MaxChunks == 2    \* chunks yielded over the whole run
MaxItems == 2     \* content items over all chunks of the run

\* ---------------------------------------------------------------- data
CallIds == {"call_1", "call_2"}
NoName == <<>>                                   \* call.name is None
Names == {<<"Optimization">>, NoName}
Texts == {"", "a", "b"}

TextContent == [type : {"text"}, text : Texts, call_id : {""}, name : {NoName}]
FunctionCallContent ==
    [type : {"call"}, text : {""}, call_id : CallIds, name : Names]
Contents == TextContent \cup FunctionCallContent

\* chunk.contents: a list of content items
StreamChunk == UNION {[1..n -> Contents] : n \in 0..MaxItems}

\* the exceptions the environment can raise at a suspension point
Raised == {"error", "interrupt"}

\* one print call: the printed text, tagged with the turn, the chunk and the
\* call identifier it was printed for (0 / "" where there is none)
Event(kind, text, t, k, id) ==
    [kind |-> kind, text |-> text, turn |-> t, chunk |-> k, call_id |-> id]

\* ---------------------------------------------------------------- chunk handling
IsFunctionCall(c) == c.type = "call"
IsText(c) == c.type = "text"

\* lines 80-83
function_calls(chunk) == SelectSeq(chunk, IsFunctionCall)

RECURSIVE JoinText(_)
JoinText(items) ==
    IF items = <<>> THEN "" ELSE Head(items).text \o JoinText(Tail(items))

\* faulty variant: only the first text item of the chunk
FirstTextOnly(chunk) ==
    IF SelectSeq(chunk, IsText) = <<>> THEN "" ELSE Head(SelectSeq(chunk, IsText)).text

\* chunk.text: the text items of the chunk, concatenated in order
ChunkText(chunk) == JoinText(SelectSeq(chunk, IsText))

\* faulty variant: "Tool calls: " + call.name, which raises on None
ConcatName(name) ==
    [raised |-> name = NoName, text |-> IF name = NoName THEN "" ELSE name[1]]

\* line 86, f"...{call.name}": str() of the name, "None" for None; never raises
FormatName(name) ==
    [raised |-> FALSE, text |-> IF name = NoName THEN "None" ELSE name[1]]

\* faulty variant: no membership test
SeenNever(call, seen) == TRUE

\* line 85
IsNewCall(call, seen) == call.call_id \notin seen

\* line 87
AddCall(seen, call) == seen \cup {call.call_id}

\* lines 84-87: the loop over the chunk's function calls
RECURSIVE ReportCalls(_, _, _, _)
ReportCalls(calls, seen, t, k) ==
    IF calls = <<>> THEN [lines |-> <<>>, seen |-> seen, raised |-> FALSE]
    ELSE LET call == Head(calls)
             f == FormatName(call.name)
         IN  IF ~IsNewCall(call, seen) THEN ReportCalls(Tail(calls), seen, t, k)
             ELSE IF f.raised THEN [lines |-> <<>>, seen |-> seen, raised |-> TRUE]
             ELSE LET r == ReportCalls(Tail(calls), AddCall(seen, call), t, k)
                  IN  [lines |-> <<Event("tool", "Tool calls: " \o f.text,
                                         t, k, call.call_id)>> \o r.lines,
                       seen |-> r.seen,
                       raised |-> r.raised]

\* faulty variant: print without the test of line 88
EmitTextAlways(chunk, t, k) == <<Event("text", ChunkText(chunk), t, k, "")>>

\* lines 88-89
EmitText(chunk, t, k) ==
    IF ChunkText(chunk) # "" THEN <<Event("text", ChunkText(chunk), t, k, "")>>
    ELSE <<>>

\* faulty variant: text printed before the tool lines
TextFirst(lines, text) == text \o lines

\* order of lines 84-87 and 88-89 within one iteration
RenderChunk(lines, text) == lines \o text

\* lines 79-89: one iteration of the async for
ProcessChunk(chunk, seen, t, k) ==
    LET r == ReportCalls(function_calls(chunk), seen, t, k)
    IN  [out |-> IF r.raised THEN r.lines
                 ELSE RenderChunk(r.lines, EmitText(chunk, t, k)),
         seen |-> r.seen,
         raised |-> r.raised]

\* faulty variant: the set created once, outside the for-loop
KeepSeen == printed_tool_calls

\* line 77
FreshSeen == {}

\* ---------------------------------------------------------------- control flow
\* faulty variant: no scoped release at all
UnwindNone(at) == "toplevel"

\* faulty variant: the helper is not released when the primary fails to open
UnwindSkipHelper(at) == IF at = "body" THEN "exitPrimary" ELSE "toplevel"

\* faulty variant: a failure inside a turn is swallowed and the loop goes on
UnwindSwallow(at) == IF at = "body" THEN "loop" ELSE "toplevel"

\* lines 36-73: where an exception raised at `at` continues: inside the body
\* both sessions are open, while the primary is entered only the helper is
Unwind(at) ==
    IF at = "body" THEN "exitPrimary"
    ELSE IF at = "enterPrimary" THEN "exitHelper"
    ELSE "toplevel"

\* faulty variant: no except Exception clause
NoExceptException(exc) == IF exc = "interrupt" THEN "KeyboardInterrupt" ELSE "none"

\* lines 100, 102: the except clause that matches the exception in flight
ExceptClause(exc) ==
    IF exc = "interrupt" THEN "KeyboardInterrupt"
    ELSE IF exc = "error" THEN "Exception"
    ELSE "none"

\* lines 101, 103
HandlerOutput(clause) ==
    IF clause = "KeyboardInterrupt"
    THEN <<Event("interrupted", "\nProgram interrupted by user", 0, 0, "")>>
    ELSE IF clause = "Exception"
    THEN <<Event("error", "An unexpected error occurred: ", 0, 0, "")>>
    ELSE <<>>

RECURSIVE SumLen(_)
SumLen(s) == IF s = <<>> THEN 0 ELSE Len(Head(s)) + SumLen(Tail(s))

RECURSIVE Flatten(_)
Flatten(s) == IF s = <<>> THEN <<>> ELSE Head(s) \o Flatten(Tail(s))

\* chunks and content items the streams have yielded so far
TotalChunks == SumLen(arrived)
TotalItems == SumLen(Flatten(arrived))

\* ---------------------------------------------------------------- actions
Init ==
    /\ pc = "enterHelper"
    /\ user_inputs \in {[i \in 1..n |-> "Hello"] : n \in 1..MaxTurns}
    /\ turn = 1
    /\ printed_tool_calls = {}
    /\ arrived = [t \in 1..Len(user_inputs) |-> <<>>]
    /\ out = <<>>
    /\ Optimization_agent = "unopened"
    /\ agent = "unopened"
    /\ sessions = <<>>
    /\ pending = "none"
    /\ handled = FALSE
    /\ exitCode = -1

\* lines 37-57: __aenter__ of the helper agent succeeds
EnterHelper ==
    /\ pc = "enterHelper"
    /\ Optimization_agent' = "open"
    /\ sessions' = Append(sessions, "enter Optimization_agent")
    /\ pc' = "enterPrimary"
    /\ UNCHANGED <<user_inputs, turn, printed_tool_calls, arrived, out, agent,
                   pending, handled, exitCode>>

\* lines 37-57: creating or entering the helper agent raises
EnterHelperRaises ==
    /\ pc = "enterHelper"
    /\ \E exc \in Raised : pending' = exc
    /\ pc' = Unwind("enterHelper")
    /\ UNCHANGED <<user_inputs, turn, printed_tool_calls, arrived, out,
                   Optimization_agent, agent, sessions, handled, exitCode>>

\* lines 58-72: __aenter__ of the primary agent succeeds
EnterPrimary ==
    /\ pc = "enterPrimary"
    /\ agent' = "open"
    /\ sessions' = Append(sessions, "enter agent")
    /\ pc' = "loop"
    /\ UNCHANGED <<user_inputs, turn, printed_tool_calls, arrived, out,
                   Optimization_agent, pending, handled, exitCode>>

\* lines 58-72: creating or entering the primary agent raises
EnterPrimaryRaises ==
    /\ pc = "enterPrimary"
    /\ \E exc \in Raised : pending' = exc
    /\ pc' = Unwind("enterPrimary")
    /\ UNCHANGED <<user_inputs, turn, printed_tool_calls, arrived, out,
                   Optimization_agent, agent, sessions, handled, exitCode>>

\* lines 75-77: the for-loop takes the next user input
TurnStart ==
    /\ pc = "loop"
    /\ turn <= Len(user_inputs)
    /\ out' = Append(out, Event("header",
                                "\n# User: '" \o user_inputs[turn] \o "'",
                                turn, 0, ""))
    /\ printed_tool_calls' = FreshSeen
    /\ pc' = "stream"
    /\ UNCHANGED <<user_inputs, turn, arrived, Optimization_agent, agent,
                   sessions, pending, handled, exitCode>>

\* lines 78-89: the stream yields a chunk and the loop body handles it
NextChunk ==
    /\ pc = "stream"
    /\ TotalChunks < MaxChunks
    /\ \E chunk \in StreamChunk :
          /\ TotalItems + Len(chunk) <= MaxItems
          /\ LET k == Len(arrived[turn]) + 1
                 r == ProcessChunk(chunk, printed_tool_calls, turn, k)
             IN  /\ arrived' = [arrived EXCEPT ![turn] = Append(@, chunk)]
                 /\ out' = out \o r.out
                 /\ printed_tool_calls' = r.seen
                 /\ pending' = IF r.raised THEN "error" ELSE pending
                 /\ pc' = IF r.raised THEN Unwind("body") ELSE pc
    /\ UNCHANGED <<user_inputs, turn, Optimization_agent, agent, sessions,
                   handled, exitCode>>

\* lines 78, 90: the stream is exhausted; the turn ends with print("")
StreamExhausted ==
    /\ pc = "stream"
    /\ out' = Append(out, Event("newline", "", turn, 0, ""))
    /\ turn' = turn + 1
    /\ pc' = "loop"
    /\ UNCHANGED <<user_inputs, printed_tool_calls, arrived, Optimization_agent,
                   agent, sessions, pending, handled, exitCode>>

\* line 78: awaiting the next chunk raises (provider error or interrupt)
StreamRaises ==
    /\ pc = "stream"
    /\ \E exc \in Raised : pending' = exc
    /\ pc' = Unwind("body")
    /\ UNCHANGED <<user_inputs, turn, printed_tool_calls, arrived, out,
                   Optimization_agent, agent, sessions, handled, exitCode>>

\* lines 75, 92: the for-loop is exhausted; the banner is printed
LoopDone ==
    /\ pc = "loop"
    /\ turn > Len(user_inputs)
    /\ out' = Append(out, Event("banner",
                                "\n--- All tasks completed successfully ---",
                                0, 0, ""))
    /\ pc' = "exitPrimary"
    /\ UNCHANGED <<user_inputs, turn, printed_tool_calls, arrived,
                   Optimization_agent, agent, sessions, pending, handled,
                   exitCode>>

\* line 73: __aexit__ of the primary agent; it may itself raise, which
\* replaces the exception in flight
ExitPrimary ==
    /\ pc = "exitPrimary"
    /\ agent' = "released"
    /\ sessions' = Append(sessions, "exit agent")
    /\ \E exc \in Raised \cup {pending} : pending' = exc
    /\ pc' = "exitHelper"
    /\ UNCHANGED <<user_inputs, turn, printed_tool_calls, arrived, out,
                   Optimization_agent, handled, exitCode>>

\* line 73: __aexit__ of the helper agent, after the primary's
ExitHelper ==
    /\ pc = "exitHelper"
    /\ Optimization_agent' = "released"
    /\ sessions' = Append(sessions, "exit Optimization_agent")
    /\ \E exc \in Raised \cup {pending} :
          /\ pending' = exc
          /\ pc' = IF exc = "none" THEN "sleep" ELSE "toplevel"
    /\ UNCHANGED <<user_inputs, turn, printed_tool_calls, arrived, out, agent,
                   handled, exitCode>>

\* line 95: asyncio.sleep(1.0) returns, or is cancelled by an interrupt
Sleep ==
    /\ pc = "sleep"
    /\ \E exc \in {"none", "interrupt"} : pending' = exc
    /\ pc' = "toplevel"
    /\ UNCHANGED <<user_inputs, turn, printed_tool_calls, arrived, out,
                   Optimization_agent, agent, sessions, handled, exitCode>>

\* lines 98-105: asyncio.run returns or raises; the matching except clause runs
TopLevelExcept ==
    /\ pc = "toplevel"
    /\ out' = out \o HandlerOutput(ExceptClause(pending))
    /\ handled' = (pending = "none" \/ ExceptClause(pending) # "none")
    /\ pc' = "finally"
    /\ UNCHANGED <<user_inputs, turn, printed_tool_calls, arrived,
                   Optimization_agent, agent, sessions, pending, exitCode>>

\* lines 106-107: the finally clause, then the interpreter exits
Finally ==
    /\ pc = "finally"
    /\ out' = Append(out, Event("finished", "Program finished.", 0, 0, ""))
    /\ exitCode' = IF handled THEN 0 ELSE 1
    /\ pc' = "done"
    /\ UNCHANGED <<user_inputs, turn, printed_tool_calls, arrived,
                   Optimization_agent, agent, sessions, pending, handled>>

Next ==
    \/ EnterHelper
    \/ EnterHelperRaises
    \/ EnterPrimary
    \/ EnterPrimaryRaises
    \/ TurnStart
    \/ NextChunk
    \/ StreamExhausted
    \/ StreamRaises
    \/ LoopDone
    \/ ExitPrimary
    \/ ExitHelper
    \/ Sleep
    \/ TopLevelExcept
    \/ Finally

Spec == Init /\ [][Next]_vars

\* ---------------------------------------------------------------- properties
Printed(kind) == SelectSeq(out, LAMBDA e : e.kind = kind)
OutOfTurn(t) == SelectSeq(out, LAMBDA e : e.turn = t)
Rendered == SelectSeq(out, LAMBDA e : e.kind \in {"tool", "text"})
ToolEventsFor(t, id) ==
    SelectSeq(out, LAMBDA e : e.kind = "tool" /\ e.turn = t /\ e.call_id = id)
TextEventsOf(t) == SelectSeq(out, LAMBDA e : e.kind = "text" /\ e.turn = t)
CallsOf(chunks) == SelectSeq(Flatten(chunks), IsFunctionCall)
IdsIn(chunks) == {CallsOf(chunks)[i].call_id : i \in 1..Len(CallsOf(chunks))}
Turns == DOMAIN arrived
EmptyContent(chunk) == function_calls(chunk) = <<>> /\ ChunkText(chunk) = ""
BannerPrinted == Printed("banner") # <<>>
SessionOrder ==
    <<"enter Optimization_agent", "enter agent", "exit agent",
      "exit Optimization_agent">>
IsPrefix(s, full) == Len(s) <= Len(full) /\ s = SubSeq(full, 1, Len(s))

\* C1: in every turn, each call identifier that occurs in a tool-invocation
\* notice of a chunk of that turn has exactly one "Tool calls" notification,
\* and an identifier that does not occur has none.
C1_OneNotificationPerCallId ==
    \A t \in Turns : \A id \in CallIds :
        Len(ToolEventsFor(t, id)) = IF id \in IdsIn(arrived[t]) THEN 1 ELSE 0

\* a turn in which two different chunks carry the same identifier
C1_Witness ==
    \E t \in Turns : \E id \in CallIds :
        /\ Len(arrived[t]) >= 2
        /\ id \in IdsIn(<<arrived[t][1]>>) \cap IdsIn(<<arrived[t][2]>>)
        /\ Len(ToolEventsFor(t, id)) = 1

\* C2: at every moment the text emitted in a turn, concatenated, is the text
\* content of the chunks that have arrived in that turn, concatenated in
\* arrival order, and every emitted fragment is tagged with the chunk that was
\* being processed when it was emitted.
C2_TextConcatenation ==
    \A t \in Turns :
        /\ JoinText(TextEventsOf(t)) = JoinText(SelectSeq(Flatten(arrived[t]), IsText))
        /\ \A i \in 1..Len(TextEventsOf(t)) :
              LET e == TextEventsOf(t)[i]
              IN  /\ e.chunk \in 1..Len(arrived[t])
                  /\ e.text = JoinText(SelectSeq(arrived[t][e.chunk], IsText))

\* a turn in which two chunks carried different text, emitted as two fragments
C2_Witness ==
    \E t \in Turns :
        /\ Len(arrived[t]) = 2
        /\ ChunkText(arrived[t][1]) = "b"
        /\ ChunkText(arrived[t][2]) = "a"
        /\ Len(TextEventsOf(t)) = 2
        /\ JoinText(TextEventsOf(t)) = "ba"

\* C3: when "Program finished." is printed no session is open any more, and
\* once an exception is in flight no chunk is processed and nothing more of
\* the stream is rendered.
C3_CleanupBeforeFinished ==
    /\ [](Printed("finished") # <<>> =>
            /\ Optimization_agent \in {"unopened", "released"}
            /\ agent \in {"unopened", "released"}
            /\ (Len(sessions) >= 1 => Optimization_agent = "released")
            /\ (Len(sessions) >= 2 /\ sessions[2] = "enter agent"
                  => agent = "released"))
    /\ [][pending # "none" => arrived' = arrived /\ Rendered' = Rendered]_vars

\* the stream failed after a chunk had arrived, and the run finished with
\* both sessions released
C3_Witness ==
    /\ pc = "done"
    /\ pending = "error"
    /\ TotalChunks > 0
    /\ ~BannerPrinted
    /\ Optimization_agent = "released"
    /\ agent = "released"

\* C4: a finished process has exit code 0 and "Program finished." as its last
\* output; an exception that left main produced exactly one message, the one
\* of its class, and a run without exception produced none.
C4_ErrorsAreNonFatal ==
    /\ exitCode \in {-1, 0}
    /\ pc = "done" =>
          /\ exitCode = 0
          /\ out[Len(out)].kind = "finished"
          /\ Len(Printed("error")) = (IF pending = "error" THEN 1 ELSE 0)
          /\ Len(Printed("interrupted")) = (IF pending = "interrupt" THEN 1 ELSE 0)

\* a run ended by an error
C4_Witness ==
    /\ pc = "done"
    /\ pending = "error"
    /\ exitCode = 0
    /\ Len(Printed("error")) = 1

\* C5: the rendered events are ordered by (turn, chunk), and within one chunk
\* no text precedes a "Tool calls" line.
C5_ArrivalOrder ==
    \A i, j \in 1..Len(Rendered) :
        i < j =>
            LET a == Rendered[i]
                b == Rendered[j]
            IN  /\ a.turn <= b.turn
                /\ (a.turn = b.turn => a.chunk <= b.chunk)
                /\ (a.turn = b.turn /\ a.chunk = b.chunk
                       => ~(a.kind = "text" /\ b.kind = "tool"))

\* a chunk whose contents list the text before the call, rendered tool first
C5_Witness ==
    \E t \in Turns : \E k \in 1..Len(arrived[t]) :
        /\ Len(arrived[t][k]) = 2
        /\ arrived[t][k][1].type = "text"
        /\ arrived[t][k][1].text # ""
        /\ arrived[t][k][2].type = "call"
        /\ \E i \in 1..(Len(out) - 1) :
              /\ out[i].kind = "tool" /\ out[i].turn = t /\ out[i].chunk = k
              /\ out[i + 1].kind = "text" /\ out[i + 1].turn = t
              /\ out[i + 1].chunk = k

\* C6: the sessions are entered helper first, then primary, and exited primary
\* first, then helper; a helper session that was entered is exited by the end
\* of the run, also when entering the primary failed.
C6_NestedSessions ==
    /\ \/ IsPrefix(sessions, SessionOrder)
       \/ sessions = <<"enter Optimization_agent", "exit Optimization_agent">>
    /\ pc \in {"toplevel", "finally", "done"} =>
          sessions \in {<<>>,
                        <<"enter Optimization_agent", "exit Optimization_agent">>,
                        SessionOrder}

\* entering the primary failed and the helper session was released
C6_Witness ==
    /\ pc = "done"
    /\ sessions = <<"enter Optimization_agent", "exit Optimization_agent">>
    /\ Optimization_agent = "released"
    /\ agent = "unopened"

\* C7: while a turn streams, the seen-call-set holds exactly the identifiers
\* of that turn's chunks (so it is empty when the turn starts), and an
\* identifier that occurs in two turns is reported once in each of them.
C7_SeenSetPerTurn ==
    /\ pc = "stream" => printed_tool_calls = IdsIn(arrived[turn])
    /\ \A t1, t2 \in Turns : \A id \in IdsIn(arrived[t1]) \cap IdsIn(arrived[t2]) :
          t1 < t2 => Len(ToolEventsFor(t1, id)) = 1 /\ Len(ToolEventsFor(t2, id)) = 1

\* the same identifier occurred in two turns
C7_Witness ==
    \E t1, t2 \in Turns : \E id \in CallIds :
        /\ t1 < t2
        /\ id \in IdsIn(arrived[t1]) \cap IdsIn(arrived[t2])
        /\ Len(ToolEventsFor(t2, id)) = 1

\* C8: a turn whose chunks all have empty content prints the header and then
\* only the turn-boundary marker, and handling an empty-content chunk changes
\* neither the seen-call-set nor the output nor raises.
C8_EmptyStream ==
    /\ [](\A t \in Turns :
            (\A k \in 1..Len(arrived[t]) : EmptyContent(arrived[t][k])) =>
                /\ IsPrefix(OutOfTurn(t),
                            <<Event("header", "\n# User: 'Hello'", t, 0, ""),
                              Event("newline", "", t, 0, "")>>)
                /\ (t < turn => Len(OutOfTurn(t)) = 2))
    /\ [][(TotalChunks' > TotalChunks
             /\ EmptyContent(arrived'[turn][Len(arrived'[turn])]))
            => /\ printed_tool_calls' = printed_tool_calls
               /\ out' = out
               /\ pending' = pending]_vars

\* a finished turn that received a chunk, all of its chunks being empty
C8_Witness ==
    \E t \in Turns :
        /\ t < turn
        /\ Len(arrived[t]) > 0
        /\ \A k \in 1..Len(arrived[t]) : EmptyContent(arrived[t][k])
        /\ Len(OutOfTurn(t)) = 2

\* C9: an identifier whose first notice of the turn has no name is reported by
\* exactly one line, "Tool calls: None", and is in the seen-call-set while the
\* turn streams; handling a chunk never raises or leaves the loop.
C9_AbsentName ==
    /\ [](\A t \in Turns : \A i \in 1..Len(CallsOf(arrived[t])) :
            LET c == CallsOf(arrived[t])[i]
            IN  (/\ c.name = NoName
                 /\ \A j \in 1..(i - 1) : CallsOf(arrived[t])[j].call_id # c.call_id)
                => /\ Len(ToolEventsFor(t, c.call_id)) = 1
                   /\ ToolEventsFor(t, c.call_id)[1].text = "Tool calls: None"
                   /\ (pc = "stream" /\ t = turn => c.call_id \in printed_tool_calls))
    /\ [][TotalChunks' > TotalChunks => pc' = "stream" /\ pending' = "none"]_vars

\* a nameless notice in the first chunk of a turn, and a second chunk of the
\* same turn rendered after it
C9_Witness ==
    \E t \in Turns :
        /\ Len(arrived[t]) = 2
        /\ Len(arrived[t][1]) = 1
        /\ arrived[t][1][1].type = "call"
        /\ arrived[t][1][1].name = NoName
        /\ Len(OutOfTurn(t)) >= 3
        /\ OutOfTurn(t)[2].text = "Tool calls: None"
        /\ OutOfTurn(t)[3].chunk = 2

\* C10 as stated: the banner needs every turn complete, never shares a run
\* with an error or interrupt message, and "Program finished." is printed once,
\* last.
C10_Original ==
    /\ BannerPrinted =>
          \A t \in 1..Len(user_inputs) : Len(SelectSeq(OutOfTurn(t),
                                         LAMBDA e : e.kind = "newline")) = 1
    /\ ~(BannerPrinted /\ (Printed("error") # <<>> \/ Printed("interrupted") # <<>>))
    /\ pc = "done" =>
          Len(Printed("finished")) = 1 /\ out[Len(out)].kind = "finished"

\* C10 amended: the banner needs every turn complete; once an exception is in
\* flight before the banner, the banner is never printed (a message can follow
\* the banner only for an exception raised after it); "Program finished." is
\* printed once, last, and never before the run ends.
C10_BannerOnlyAfterAllTurns ==
    /\ [](/\ BannerPrinted =>
               \A t \in 1..Len(user_inputs) : Len(SelectSeq(OutOfTurn(t),
                                              LAMBDA e : e.kind = "newline")) = 1
          /\ pc = "done" =>
               Len(Printed("finished")) = 1 /\ out[Len(out)].kind = "finished"
          /\ pc # "done" => Printed("finished") = <<>>)
    /\ [][pending # "none" /\ ~BannerPrinted => ~BannerPrinted']_vars

\* the banner was printed after a complete turn and an interrupt arrived later
C10_Witness ==
    /\ pc = "done"
    /\ BannerPrinted
    /\ Len(user_inputs) >= 1
    /\ Printed("interrupted") # <<>>
    /\ out[Len(out)].kind = "finished"

====
